---- MODULE Spec2Model ----
(***************************************************************************)
(* SVG Icon Downloader: the React component App in two revisions.          *)
(*   src/src/App.jsx       the direct revision: handlePaste reads the      *)
(*                         clipboard and calls downloadSvg(pastedText)     *)
(*   src/unnamed/part_000  the deferred revision: handlePaste sets the     *)
(*                         downloadOnPaste flag, an effect arms a 100 ms   *)
(*                         timer whose callback calls handleDownload()     *)
(* A text is a sequence of one-character strings.  useState hooks are a    *)
(* committed value (what the last render saw) plus a queue of setState     *)
(* calls that the next render applies in order.                            *)
(***************************************************************************)
EXTENDS Integers, Sequences, FiniteSets, TLC

VARIABLES
    downloadLinkRef,  \* useRef(null): "null" until the <a> is mounted
    svgCode,          \* useState: markup as of the last render
    error,            \* useState: error message as of the last render
    downloadOnPaste,  \* useState (deferred revision only): the paste flag
    qSvg,             \* queued setSvgCode calls, applied by the next render
    qErr,             \* queued setError calls
    qFlag,            \* queued setDownloadOnPaste calls
    preview,          \* innerHTML of the preview <div> as last rendered
    anchor,           \* the hidden <a>: its href and download attributes
    objectUrls,       \* the host's blob URL store: live (unrevoked) URLs
    timers,           \* pending setTimeout callbacks, in firing order
    pc,               \* position of the handler in progress
    pastedText,       \* handlePaste's local const pastedText
    evt,              \* the user event being handled, or handled last
    call,             \* what the last export call of that event did
    auto,             \* deferred revision: what the timers of the last paste did
    text,             \* validator harness: the input text
    verdict           \* validator harness: the two gates' answers

vars == <<downloadLinkRef, svgCode, error, downloadOnPaste, qSvg, qErr, qFlag,
          preview, anchor, objectUrls, timers, pc, pastedText, evt, call, auto,
          text, verdict>>

-----------------------------------------------------------------------------
(* Bounds *)

\* longest text the validator harness enumerates
MaxLen == 5

\* how many times the host's click() may throw in one run
MaxThrows == 2

\* the user starts no new event while this many timers are pending
MaxTimers == 3

-----------------------------------------------------------------------------
(* Texts *)

\* characters String.prototype.trim strips (two representatives)
WhiteSpace == {" ", "\n"}

Chars == WhiteSpace \cup {"<", "s", "v", "g", "S"}

\* the literal '<svg' both gates test for
SvgPrefix == <<"<", "s", "v", "g">>

\* String.prototype.trimStart / trimEnd / trim
RECURSIVE TrimStart(_)
TrimStart(s) ==
    IF s = <<>> THEN s
    ELSE IF Head(s) \in WhiteSpace THEN TrimStart(Tail(s))
    ELSE s

RECURSIVE TrimEnd(_)
TrimEnd(s) ==
    IF s = <<>> THEN s
    ELSE IF s[Len(s)] \in WhiteSpace THEN TrimEnd(SubSeq(s, 1, Len(s) - 1))
    ELSE s

Trim(s) == TrimEnd(TrimStart(s))

\* String.prototype.startsWith
StartsWith(s, p) == Len(s) >= Len(p) /\ SubSeq(s, 1, Len(p)) = p

\* JavaScript truthiness of a string
Truthy(s) == s # <<>>

\* App.jsx:22 with the gate un-negated: the export goes on iff this holds
downloadSvgGate_NoTrim(codeToDownload) ==
    ~(~Truthy(codeToDownload) \/ ~StartsWith(codeToDownload, SvgPrefix))

downloadSvgGate(codeToDownload) ==
    ~(~Truthy(codeToDownload) \/ ~StartsWith(Trim(codeToDownload), SvgPrefix))

\* part_000:41
handleDownloadGate(code) ==
    ~(~Truthy(Trim(code)) \/ ~StartsWith(Trim(code), SvgPrefix))

\* part_000:78, the timer callback's own test
timerGate(code) == StartsWith(Trim(code), SvgPrefix)

\* The validator of the specification, stated without trim: some position i
\* has only whitespace before it and the literal <svg at it.
isPlausibleSvg(t) ==
    \E i \in 1..Len(t) :
        /\ \A k \in 1..(i - 1) : t[k] \in WhiteSpace
        /\ i + 3 <= Len(t)
        /\ t[i] = "<" /\ t[i + 1] = "s" /\ t[i + 2] = "v" /\ t[i + 3] = "g"

\* every text of at most n characters
TextsUpTo(n) == UNION {[1..k -> Chars] : k \in 0..n}

-----------------------------------------------------------------------------
(* Values the handlers work with *)

\* App.jsx:6, the sample icon useState starts from (abbreviated)
DefaultSvg == <<"<", "s", "v", "g", ">">>

\* the texts the user types or pastes
Texts == { <<>>,
           <<" ">>,
           DefaultSvg,
           <<"<", "s", "v", "g", "/", ">">>,
           <<"\n", "<", "s", "v", "g", ">", " ">>,
           <<"<", "S", "V", "G", ">">>,
           <<"s", "v", "g">> }

ErrInvalid == "Please provide valid SVG code starting with <svg>."
ErrInvalidOld == "Please enter valid SVG code starting with <svg>."
ErrPasted == "Pasted content is not valid SVG code."

NoArtifact == [content |-> <<>>, type |-> "", filename |-> "", saved |-> FALSE]
NoCall == [n |-> 0, tick |-> 0, arg |-> <<>>, blobs |-> 0, urls |-> 0,
           clicks |-> 0, revoked |-> 0, artifact |-> NoArtifact]
NoEvent == [kind |-> "none", text |-> <<>>, latest |-> DefaultSvg]
NoAuto == [n |-> 0, code |-> <<>>, cur |-> FALSE, post |-> {}]
NoVerdict == [done |-> FALSE, new |-> FALSE, old |-> FALSE]

Last(q) == q[Len(q)]
\* a useState hook's value once the queued setState calls are applied
Applied(committed, q) == IF q = <<>> THEN committed ELSE Last(q)

-----------------------------------------------------------------------------
(* Validator harness: both gates applied to every text up to MaxLen *)

InitGate ==
    /\ text \in TextsUpTo(MaxLen)
    /\ verdict = NoVerdict
    /\ downloadLinkRef = "null"
    /\ svgCode = DefaultSvg
    /\ error = ""
    /\ downloadOnPaste = FALSE
    /\ qSvg = <<>> /\ qErr = <<>> /\ qFlag = <<>>
    /\ preview = <<>>
    /\ anchor = [href |-> 0, download |-> ""]
    /\ objectUrls = {}
    /\ timers = <<>>
    /\ pc = "idle"
    /\ pastedText = <<>>
    /\ evt = NoEvent
    /\ call = NoCall
    /\ auto = NoAuto

Validate ==
    /\ ~verdict.done
    /\ verdict' = [done |-> TRUE,
                   new |-> downloadSvgGate(text),
                   old |-> handleDownloadGate(text)]
    /\ UNCHANGED <<downloadLinkRef, svgCode, error, downloadOnPaste, qSvg, qErr,
                   qFlag, preview, anchor, objectUrls, timers, pc, pastedText,
                   evt, call, auto, text>>

NextGate == Validate

SpecGate == InitGate /\ [][NextGate]_vars

\* C2: for every input text, empty and whitespace-only included, the gate of
\* downloadSvg and the gate of handleDownload accept the text iff the text
\* with leading and trailing whitespace removed starts with the literal <svg.
C2_GatesEqualValidator ==
    verdict.done =>
        /\ verdict.new = isPlausibleSvg(text)
        /\ verdict.old = isPlausibleSvg(text)

\* a text with whitespace before <svg has been accepted by both gates
C2_Witness ==
    /\ verdict.done
    /\ verdict.new /\ verdict.old
    /\ text # <<>> /\ Head(text) \in WhiteSpace

\* a whitespace-only text has been rejected by both gates
C2_WitnessBlank ==
    /\ verdict.done
    /\ ~verdict.new /\ ~verdict.old
    /\ text # <<>> /\ \A k \in 1..Len(text) : text[k] \in WhiteSpace

-----------------------------------------------------------------------------
(* The host: Blob, URL.createObjectURL / revokeObjectURL, HTMLElement.click *)

\* new Blob([code], { type: 'image/svg+xml' })  (App.jsx:30, part_000:49)
makeBlob_Trimmed(code) == [content |-> Trim(code), type |-> "image/svg+xml"]

makeBlob(code) == [content |-> code, type |-> "image/svg+xml"]

\* a URL no live entry and no attribute holds
FreshUrl ==
    CHOOSE u \in 1..(Cardinality(objectUrls) + 2) :
        /\ u # anchor.href
        /\ \A e \in objectUrls : e.url # u
        /\ \A w \in 1..(u - 1) : w = anchor.href \/ \E e \in objectUrls : e.url = w

createObjectURL(store, url, blob) == store \cup {[url |-> url, blob |-> blob]}

revokeObjectURL(store, url) == {e \in store : e.url # url}

\* what <a href download>.click() offers to save: the blob its href resolves
\* to in the store at that moment, under the download attribute's name;
\* nothing is saved when click() throws or the URL is no longer live
click(a, store, throws) ==
    IF \E e \in store : e.url = a.href
    THEN LET b == (CHOOSE e \in store : e.url = a.href).blob
         IN  [content |-> b.content, type |-> b.type,
              filename |-> a.download, saved |-> ~throws]
    ELSE NoArtifact

\* the host's click() may throw only while fewer than MaxThrows URLs leaked
MayThrow == {FALSE} \cup {th \in {TRUE} : Cardinality(objectUrls) < MaxThrows}

-----------------------------------------------------------------------------
(* The export: App.jsx:22-44, the same as part_000:41-63 but for the gate    *)
(* and the message.  ok is the caller's gate, msg the setError argument of   *)
(* its rejecting branch, prev the export calls the event has made so far.    *)

\* App.jsx:27-44 / part_000:46-63: the blob, its URL, the click, the revoke.
\* q is the setError queue the branch starts from.
exportProceed(code, throws, prev, q) ==
    LET blob    == makeBlob(code)
        url     == FreshUrl
        store1  == createObjectURL(objectUrls, url, blob)
        hasRef  == downloadLinkRef # "null"
        a1      == IF hasRef
                   THEN [href |-> url, download |-> "icon.svg"]
                   ELSE anchor
        thrown  == hasRef /\ throws
        \* URL.revokeObjectURL(url) is reached only if click() returned
        store2  == IF thrown THEN store1 ELSE revokeObjectURL(store1, url)
    IN  /\ qErr' = Append(q, "")
        /\ anchor' = a1
        /\ objectUrls' = store2
        /\ call' = [n |-> prev + 1, tick |-> 1 - call.tick, arg |-> code,
                    blobs |-> 1, urls |-> 1,
                    clicks |-> IF hasRef THEN 1 ELSE 0,
                    revoked |-> IF thrown THEN 0 ELSE 1,
                    artifact |-> IF hasRef THEN click(a1, store1, throws)
                                 ELSE NoArtifact]

\* A mutant: the rejecting branch lacks its return and falls through
exportReject_FallsThrough(code, msg, throws, prev) ==
    exportProceed(code, throws, prev, Append(qErr, msg))

\* App.jsx:22-25 / part_000:41-44: setError(msg); return;
exportReject(code, msg, throws, prev) ==
    /\ qErr' = Append(qErr, msg)
    /\ call' = [n |-> prev + 1, tick |-> 1 - call.tick, arg |-> code,
                blobs |-> 0, urls |-> 0, clicks |-> 0, revoked |-> 0,
                artifact |-> NoArtifact]
    /\ UNCHANGED <<anchor, objectUrls>>

export(code, ok, msg, throws, prev) ==
    IF ~ok
    THEN exportReject(code, msg, throws, prev)
    ELSE exportProceed(code, throws, prev, qErr)

\* App.jsx:20-45
downloadSvg(codeToDownload, throws, prev) ==
    export(codeToDownload, downloadSvgGate(codeToDownload), ErrInvalid, throws,
           prev)

-----------------------------------------------------------------------------
(* src/src/App.jsx *)

Init ==
    /\ downloadLinkRef = "null"
    /\ svgCode = DefaultSvg
    /\ error = ""
    /\ downloadOnPaste = FALSE
    /\ qSvg = <<>> /\ qErr = <<>> /\ qFlag = <<>>
    /\ preview = <<>>
    /\ anchor = [href |-> 0, download |-> ""]
    /\ objectUrls = {}
    /\ timers = <<>>
    /\ pc = "idle"
    /\ pastedText = <<>>
    /\ evt = NoEvent
    /\ call = NoCall
    /\ auto = NoAuto
    /\ text = <<>>
    /\ verdict = NoVerdict

\* the variables App.jsx does not have
OnlyDeferred == <<downloadOnPaste, qFlag, timers, auto, text, verdict>>

\* a user event is dispatched once the component is mounted, no handler is
\* running and the updates of the previous event have been rendered
Ready ==
    /\ downloadLinkRef # "null"
    /\ pc = "idle"
    /\ qSvg = <<>> /\ qErr = <<>> /\ qFlag = <<>>

\* the first commit: the JSX of App.jsx:80-137 is put in the document
Mount ==
    /\ downloadLinkRef = "null"
    /\ downloadLinkRef' = "anchor"
    /\ preview' = svgCode
    /\ UNCHANGED <<svgCode, error, qSvg, qErr, anchor, objectUrls, pc,
                   pastedText, evt, call>>
    /\ UNCHANGED OnlyDeferred

\* A mutant: the preview shows only markup that passes the gate
Render_GatedPreview ==
    /\ downloadLinkRef # "null"
    /\ qSvg # <<>> \/ qErr # <<>>
    /\ svgCode' = Applied(svgCode, qSvg)
    /\ error' = Applied(error, qErr)
    /\ preview' = IF downloadSvgGate(Applied(svgCode, qSvg))
                  THEN Applied(svgCode, qSvg) ELSE <<>>
    /\ qSvg' = <<>> /\ qErr' = <<>>
    /\ UNCHANGED <<downloadLinkRef, anchor, objectUrls, pc, pastedText, evt, call>>
    /\ UNCHANGED OnlyDeferred

\* a re-render: the queued setState calls are applied and the JSX is
\* evaluated again (value={svgCode}, {error && ...}, __html: svgCode)
Render ==
    /\ downloadLinkRef # "null"
    /\ qSvg # <<>> \/ qErr # <<>>
    /\ svgCode' = Applied(svgCode, qSvg)
    /\ error' = Applied(error, qErr)
    /\ preview' = Applied(svgCode, qSvg)
    /\ qSvg' = <<>> /\ qErr' = <<>>
    /\ UNCHANGED <<downloadLinkRef, anchor, objectUrls, pc, pastedText, evt, call>>
    /\ UNCHANGED OnlyDeferred

\* A mutant: the edit keeps the previous error
handleCodeChange_KeepsError(value) ==
    /\ Ready
    /\ qSvg' = Append(qSvg, value)
    /\ evt' = [kind |-> "edit", text |-> value, latest |-> value]
    /\ call' = [NoCall EXCEPT !.tick = call.tick]
    /\ UNCHANGED <<downloadLinkRef, svgCode, error, qErr, preview, anchor,
                   objectUrls, pc, pastedText>>
    /\ UNCHANGED OnlyDeferred

\* App.jsx:51-54, onChange of the textarea with e.target.value = value
handleCodeChange(value) ==
    /\ Ready
    /\ qErr' = Append(qErr, "")
    /\ qSvg' = Append(qSvg, value)
    /\ evt' = [kind |-> "edit", text |-> value, latest |-> value]
    /\ call' = [NoCall EXCEPT !.tick = call.tick]
    /\ UNCHANGED <<downloadLinkRef, svgCode, error, preview, anchor,
                   objectUrls, pc, pastedText>>
    /\ UNCHANGED OnlyDeferred

\* App.jsx:60-66, onPaste with e.clipboardData.getData('text') = clip:
\* the default insertion is prevented, the clipboard text is read and
\* setSvgCode(pastedText) is queued
handlePasteRead(clip) ==
    /\ Ready
    /\ pastedText' = clip
    /\ qSvg' = Append(qSvg, clip)
    /\ pc' = "paste"
    /\ evt' = [kind |-> "paste", text |-> clip, latest |-> clip]
    /\ call' = [NoCall EXCEPT !.tick = call.tick]
    /\ UNCHANGED <<downloadLinkRef, svgCode, error, qErr, preview, anchor,
                   objectUrls>>
    /\ UNCHANGED OnlyDeferred

\* A mutant: the export reads the markup state instead of the clipboard text
handlePasteExport_ReadsState(throws) ==
    /\ pc = "paste"
    /\ downloadSvg(svgCode, throws, call.n)
    /\ pc' = "idle"
    /\ UNCHANGED <<downloadLinkRef, svgCode, error, qSvg, preview, pastedText, evt>>
    /\ UNCHANGED OnlyDeferred

\* App.jsx:68, downloadSvg(pastedText).  Render is enabled between the two
\* halves of handlePaste, so the commit of setSvgCode may land before the
\* export as well as after it.
handlePasteExport(throws) ==
    /\ pc = "paste"
    /\ downloadSvg(pastedText, throws, call.n)
    /\ pc' = "idle"
    /\ UNCHANGED <<downloadLinkRef, svgCode, error, qSvg, preview, pastedText, evt>>
    /\ UNCHANGED OnlyDeferred

\* A mutant: the handler is memoised with no dependencies, so it keeps the
\* svgCode of the first render
handleManualDownload_StaleClosure(throws) ==
    /\ Ready
    /\ evt' = [evt EXCEPT !.kind = "manual", !.text = <<>>]
    /\ downloadSvg(DefaultSvg, throws, 0)
    /\ UNCHANGED <<downloadLinkRef, svgCode, error, qSvg, preview, pc, pastedText>>
    /\ UNCHANGED OnlyDeferred

\* App.jsx:74-76, onClick of the button: svgCode is the last render's value
handleManualDownload(throws) ==
    /\ Ready
    /\ evt' = [evt EXCEPT !.kind = "manual", !.text = <<>>]
    /\ downloadSvg(svgCode, throws, 0)
    /\ UNCHANGED <<downloadLinkRef, svgCode, error, qSvg, preview, pc, pastedText>>
    /\ UNCHANGED OnlyDeferred

Next ==
    \/ Mount
    \/ Render
    \/ \E value \in Texts : handleCodeChange(value)
    \/ \E clip \in Texts : handlePasteRead(clip)
    \/ \E throws \in MayThrow : handlePasteExport(throws)
    \/ \E throws \in MayThrow : handleManualDownload(throws)

Spec == Init /\ [][Next]_vars

-----------------------------------------------------------------------------
(* Claims about src/src/App.jsx *)

\* the error message a handler leaves behind: the committed one with the
\* queued setError calls applied
ErrorShown == Applied(error, qErr)

\* C1: every paste event leads to exactly one call of downloadSvg and the
\* text passed to it is the clipboard text of that paste, wherever the
\* commit of setSvgCode(pastedText) lands: none before the export, one
\* after it, and its argument is the event's clipboard text.
C1_PasteExportsClipboardOnce ==
    evt.kind = "paste" =>
        /\ pc = "paste" => call.n = 0
        /\ pc = "idle" => call.n = 1 /\ call.arg = evt.text

\* a paste has exported its clipboard text while setSvgCode was still queued
\* and the committed markup was another text
C1_Witness ==
    /\ evt.kind = "paste" /\ pc = "idle"
    /\ call.n = 1 /\ call.arg = evt.text
    /\ qSvg # <<>> /\ svgCode # evt.text

\* a paste has exported after the commit of setSvgCode had already landed
C1_WitnessCommitFirst ==
    /\ evt.kind = "paste" /\ pc = "idle"
    /\ call.n = 1 /\ qSvg = <<>> /\ qErr # <<>>
    /\ svgCode = evt.text

\* C3: a call of downloadSvg with text the validator rejects ends with the
\* error message non-empty and does nothing else: no blob, no object URL,
\* no click of the anchor; the URL store and the anchor are as before.
C3_RejectedCallOnlySetsError ==
    /\ []((call.n = 1 /\ ~isPlausibleSvg(call.arg)) =>
            /\ ErrorShown # ""
            /\ call.blobs = 0 /\ call.urls = 0 /\ call.clicks = 0
            /\ call.artifact = NoArtifact)
    /\ [][(call'.tick # call.tick /\ ~isPlausibleSvg(call'.arg))
            => UNCHANGED <<objectUrls, anchor>>]_vars

\* a rejected call has happened
C3_Witness ==
    /\ call.n = 1 /\ ~isPlausibleSvg(call.arg)
    /\ call.arg # <<>>
    /\ ErrorShown = ErrInvalid

\* C4: a call of downloadSvg with text the validator accepts clicks the
\* anchor exactly once; what the click offers has the passed text as its
\* content, untrimmed, the type image/svg+xml and the name icon.svg; the
\* error message is empty afterwards.
C4_AcceptedCallSavesExactText ==
    (call.n = 1 /\ isPlausibleSvg(call.arg)) =>
        /\ call.clicks = 1
        /\ call.artifact.content = call.arg
        /\ call.artifact.type = "image/svg+xml"
        /\ call.artifact.filename = "icon.svg"
        /\ ErrorShown = ""

\* an accepted text with surrounding whitespace has been saved
C4_Witness ==
    /\ call.n = 1 /\ isPlausibleSvg(call.arg)
    /\ Trim(call.arg) # call.arg
    /\ call.artifact.saved

\* C5 as stated: every object URL downloadSvg creates is revoked before
\* downloadSvg exits, on every exit path, so none stays live between events.
C5_NoUrlOutlivesTheCall ==
    pc = "idle" => objectUrls = {}

\* C6: between events the error message is non-empty iff the most recent
\* event was an export attempt, manual or by paste, that failed validation.
C6_ErrorIffLastExportFailed ==
    pc = "idle" =>
        (ErrorShown # ""
            <=> /\ evt.kind \in {"paste", "manual"}
                /\ call.n = 1
                /\ ~isPlausibleSvg(call.arg))

\* an edit to text the validator rejects has queued setError('') while the
\* message of the failed export before it is still the one rendered
C6_Witness ==
    /\ evt.kind = "edit" /\ pc = "idle"
    /\ ~isPlausibleSvg(evt.text)
    /\ error = ErrInvalid
    /\ qErr = <<"">>

\* C7: an export attempt leaves the markup state unchanged, and the preview
\* is the markup state in every state of the mounted component, whatever
\* its validity.
C7_PreviewIsMarkup ==
    /\ [](downloadLinkRef # "null" => preview = svgCode)
    /\ [][call'.tick # call.tick
            => UNCHANGED <<svgCode, qSvg, preview>>]_vars

\* a manual export of markup the validator rejects has failed and been
\* rendered, and the preview still shows that markup
C7_Witness ==
    /\ evt.kind = "manual" /\ call.n = 1
    /\ ~isPlausibleSvg(call.arg)
    /\ error # "" /\ qErr = <<>>
    /\ svgCode # <<>> /\ preview = svgCode

\* C8: Manual Download passes to the exporter the current markup: the text
\* of the most recent edit or paste, or the sample icon if there was none;
\* what a successful manual download saves is that text.
C8_ManualExportsCurrentMarkup ==
    evt.kind = "manual" =>
        /\ call.n = 1
        /\ call.arg = evt.latest
        /\ call.arg = svgCode
        /\ call.artifact.saved => call.artifact.content = evt.latest

\* a manual download has saved a text that an edit or a paste put there
C8_Witness ==
    /\ evt.kind = "manual"
    /\ call.artifact.saved
    /\ evt.latest # DefaultSvg
    /\ call.artifact.content = evt.latest

-----------------------------------------------------------------------------
(* src/unnamed/part_000, the deferred revision *)

\* the texts its user types or pastes
TextsDeferred == { DefaultSvg, <<"<", "s", "v", "g", "/", ">">>,
                   <<"s", "v", "g">> }

\* part_000:6-15
InitDeferred == Init

\* part_000:39-64; code is the svgCode of the render that made the closure
handleDownload(code, throws, prev) ==
    export(code, handleDownloadGate(code), ErrInvalidOld, throws, prev)

\* the first commit: part_000:91-148 is put in the document; the effect of
\* part_000:72-87 runs with downloadOnPaste false and arms nothing
MountDeferred ==
    /\ downloadLinkRef = "null"
    /\ downloadLinkRef' = "anchor"
    /\ preview' = svgCode
    /\ UNCHANGED <<svgCode, error, downloadOnPaste, qSvg, qErr, qFlag, anchor,
                   objectUrls, timers, pc, pastedText, evt, call, auto, text,
                   verdict>>

\* A re-render and the effect after it.  React renders only if a hook's
\* value changed; handleDownload is a new function in every render, so the
\* effect of part_000:72-87 runs after each of them, and with the flag set
\* it arms a timer whose callback closes over that render's svgCode.
RenderDeferred ==
    /\ downloadLinkRef # "null"
    /\ qSvg # <<>> \/ qErr # <<>> \/ qFlag # <<>>
    /\ LET s1 == Applied(svgCode, qSvg)
           e1 == Applied(error, qErr)
           f1 == Applied(downloadOnPaste, qFlag)
           changed == s1 # svgCode \/ e1 # error \/ f1 # downloadOnPaste
       IN  /\ svgCode' = s1
           /\ error' = e1
           /\ downloadOnPaste' = f1
           /\ preview' = s1
           /\ timers' = IF changed /\ f1
                        THEN Append(timers, [code |-> s1, cur |-> TRUE])
                        ELSE timers
    /\ qSvg' = <<>> /\ qErr' = <<>> /\ qFlag' = <<>>
    /\ UNCHANGED <<downloadLinkRef, anchor, objectUrls, pc, pastedText, evt,
                   call, auto, text, verdict>>

\* part_000:23-26, onChange when the user types
handleCodeChangeDeferred(value) ==
    /\ Ready
    /\ Len(timers) < MaxTimers
    /\ qErr' = Append(qErr, "")
    /\ qSvg' = Append(qSvg, value)
    /\ evt' = [kind |-> "edit", text |-> value, latest |-> value]
    /\ call' = [NoCall EXCEPT !.tick = call.tick]
    /\ auto' = [auto EXCEPT !.post = IF @ = {} THEN @ ELSE @ \cup {value}]
    /\ UNCHANGED <<downloadLinkRef, svgCode, error, downloadOnPaste, qFlag,
                   preview, anchor, objectUrls, timers, pc, pastedText, text,
                   verdict>>

\* part_000:32-34, onPaste: the flag is queued and the default insertion is
\* left to the browser.  The timers armed for earlier pastes stop counting
\* for this one.
handlePasteDeferred ==
    /\ Ready
    /\ Len(timers) + 2 <= MaxTimers
    /\ qFlag' = Append(qFlag, TRUE)
    /\ pc' = "insert"
    /\ evt' = [evt EXCEPT !.kind = "paste", !.text = <<>>]
    /\ call' = [NoCall EXCEPT !.tick = call.tick]
    /\ timers' = [i \in DOMAIN timers |-> [timers[i] EXCEPT !.cur = FALSE]]
    /\ auto' = NoAuto
    /\ UNCHANGED <<downloadLinkRef, svgCode, error, downloadOnPaste, qSvg, qErr,
                   preview, anchor, objectUrls, pastedText, text, verdict>>

\* the browser's default action of the paste: the clipboard text is put in
\* the textarea and the input event reaches handleCodeChange (part_000:23-26)
\* with the resulting value.  The render of the flag has happened by then.
pasteInsert(value) ==
    /\ downloadLinkRef # "null"
    /\ pc = "insert"
    /\ qSvg = <<>> /\ qErr = <<>> /\ qFlag = <<>>
    /\ qErr' = Append(qErr, "")
    /\ qSvg' = Append(qSvg, value)
    /\ pc' = "idle"
    /\ evt' = [kind |-> "paste", text |-> value, latest |-> value]
    /\ auto' = [auto EXCEPT !.post = {value}]
    /\ UNCHANGED <<downloadLinkRef, svgCode, error, downloadOnPaste, qFlag,
                   preview, anchor, objectUrls, timers, pastedText, call, text,
                   verdict>>

\* part_000:116, onClick={handleDownload} of the last render
handleDownloadClick(throws) ==
    /\ Ready
    /\ evt' = [evt EXCEPT !.kind = "manual", !.text = <<>>]
    /\ handleDownload(svgCode, throws, 0)
    /\ UNCHANGED <<downloadLinkRef, svgCode, error, downloadOnPaste, qSvg, qFlag,
                   preview, timers, pc, pastedText, auto, text, verdict>>

Min(a, b) == IF a < b THEN a ELSE b

\* part_000:77-85, the callback of the oldest pending timer.  svgCode and
\* handleDownload are those of the render that armed it.  If click() throws
\* inside handleDownload, setDownloadOnPaste(false) is not reached.
timerCallback(throws) ==
    /\ Ready
    /\ timers # <<>>
    /\ LET t == Head(timers)
       IN  /\ IF timerGate(t.code)
              THEN /\ handleDownload(t.code, throws, 0)
                   /\ qFlag' = IF throws /\ handleDownloadGate(t.code)
                               THEN qFlag ELSE Append(qFlag, FALSE)
              ELSE /\ qErr' = Append(qErr, ErrPasted)
                   /\ qFlag' = Append(qFlag, FALSE)
                   /\ call' = [NoCall EXCEPT !.tick = call.tick]
                   /\ UNCHANGED <<anchor, objectUrls>>
           \* n counts the handleDownload calls made for the current paste
           /\ auto' = [auto EXCEPT
                         !.n = IF t.cur /\ timerGate(t.code)
                               THEN Min(@ + 1, MaxTimers) ELSE @,
                         !.code = t.code,
                         !.cur = t.cur]
    /\ timers' = Tail(timers)
    /\ evt' = [evt EXCEPT !.kind = "timer"]
    /\ UNCHANGED <<downloadLinkRef, svgCode, error, downloadOnPaste, qSvg,
                   preview, pc, pastedText, text, verdict>>

NextDeferred ==
    \/ MountDeferred
    \/ RenderDeferred
    \/ \E value \in TextsDeferred : handleCodeChangeDeferred(value)
    \/ handlePasteDeferred
    \/ \E value \in TextsDeferred : pasteInsert(value)
    \/ \E throws \in MayThrow : handleDownloadClick(throws)
    \/ \E throws \in MayThrow : timerCallback(throws)

SpecDeferred == InitDeferred /\ [][NextDeferred]_vars

-----------------------------------------------------------------------------
(* Claims about the deferred revision *)

\* C9 as stated: the export a timer callback runs after a paste reads the
\* markup as committed by that paste (or set after it), never the markup the
\* state held before the paste landed.
C9_TimerReadsPostPasteMarkup ==
    (evt.kind = "timer" /\ auto.cur) => auto.code \in auto.post

\* C10 as stated: each paste causes exactly one deferred export attempt,
\* however many renders happen while downloadOnPaste is set: the timer
\* callbacks armed for one paste call handleDownload at most once.
C10_OneTimerCallbackPerPaste ==
    auto.n <= 1

====
